---- MODULE Spec2Model ----
(***************************************************************************)
(* Model of src/src/App.tsx: the App component's session state (`state`),  *)
(* its three entry points (handleWin, setGame, setIsSpinning) and the      *)
(* three game modules (SlotMachine, CoinFlip, DiceRoll) with their local   *)
(* display state and their pending timers.                                 *)
(*                                                                         *)
(* The module on screen is rendered inside <AnimatePresence mode="wait">   *)
(* under key={state.currentGame} (lines 336-348): after a change of        *)
(* currentGame the old module stays mounted, with the props of its last    *)
(* render, until its exit animation ends, and only then the new module     *)
(* mounts.                                                                 *)
(*                                                                         *)
(* Math.random() is modelled as the rational r / RandDenom with r an       *)
(* integer in 0 .. RandDenom-1; every call site draws r from a small set   *)
(* of sample points chosen to hit both sides of each comparison.           *)
(***************************************************************************)
EXTENDS Integers, Sequences, FiniteSets, TLC

VARIABLES state, mounted, reels, side, dice, timers, outcome

vars == <<state, mounted, reels, side, dice, timers, outcome>>

(***************************************************************************)
(* Bounds of the model.                                                    *)
(***************************************************************************)
\* Math.random() returns r / RandDenom.
RandDenom == 1000
\* Program specification: no round is started once wins reached MaxWins,
\* nor while MaxTimers timers are pending.
MaxWins == 2
MaxTimers == 2
\* Controller specification: onWin is not called once wins reached MaxCalls.
MaxCalls == 6

\* Sample points of Math.random(), per call site.
TickDraws == {0}
ReelDraws == {0, 999}
BiasDraws == {0, 400, 401, 999}
WinSymDraws == {0, 500, 999}
CoinDraws == {0, 500, 501, 999}
DiceDraws == {0, 200, 400, 500, 800, 999}
AmountDraws == {0, 999}
CallDraws == {0, 200, 550, 800, 999}

(***************************************************************************)
(* Program constants.                                                      *)
(***************************************************************************)
GameType == {"slots", "coin", "dice"}
symbols == <<"cherry", "lemon", "bell", "diamond", "seven", "clover">>
SlotIterations == 20
DiceCount == 15
DiceThreshold == 3
VaultWins == 3
HistoryCap == 5
AmountSpan == 101
AmountBase == 400
\* JavaScript null (the initial and the cleared lastResult); no label equals it.
NULL == "null"

\* Math.floor(Math.random() * k)
RandInt(r, k) == (r * k) \div RandDenom

\* symbols[Math.floor(Math.random() * symbols.length)]
RandSymbol(r) == symbols[RandInt(r, Len(symbols)) + 1]

\* Math.floor(Math.random() * 6) + 1
RandDie(r) == RandInt(r, 6) + 1

\* Mutant of WinAmount: the span is one too wide (draws up to 501).
WinAmount_wide(r) == RandInt(r, AmountSpan + 1) + AmountBase

\* Math.floor(Math.random() * 101) + 400
WinAmount(r) == RandInt(r, AmountSpan) + AmountBase

\* `+$${winAmount}!`
Label(winAmount) == "+$" \o ToString(winAmount) \o "!"

\* xs.slice(0, n)
Slice(xs, n) == SubSeq(xs, 1, IF Len(xs) < n THEN Len(xs) ELSE n)

\* JavaScript truthiness of `string | null`
Truthy(x) == x # NULL /\ x # ""

(***************************************************************************)
(* Session Controller (App).                                               *)
(***************************************************************************)
InitialState ==
  [wins |-> 0, balance |-> 0, showVault |-> FALSE, currentGame |-> "slots",
   isSpinning |-> FALSE, lastResult |-> NULL, history |-> <<>>]

\* Mutant of handleWin: the vault opens one win late (newWins > 3).
handleWin_strictVault(prev, winAmount) ==
  LET newWins == prev.wins + 1
      shouldOpenVault == newWins > VaultWins
  IN [prev EXCEPT
        !.wins = newWins,
        !.balance = prev.balance + winAmount,
        !.showVault = shouldOpenVault,
        !.lastResult = Label(winAmount),
        !.history = Slice(<<[game |-> prev.currentGame, result |-> "win"]>>
                            \o prev.history, HistoryCap)]

\* Mutant of handleWin: slice(0, 6) keeps one entry too many.
handleWin_sliceSix(prev, winAmount) ==
  LET newWins == prev.wins + 1
      shouldOpenVault == newWins >= VaultWins
  IN [prev EXCEPT
        !.wins = newWins,
        !.balance = prev.balance + winAmount,
        !.showVault = shouldOpenVault,
        !.lastResult = Label(winAmount),
        !.history = Slice(<<[game |-> prev.currentGame, result |-> "win"]>>
                            \o prev.history, HistoryCap + 1)]

handleWin(prev, winAmount) ==
  LET newWins == prev.wins + 1
      shouldOpenVault == newWins >= VaultWins
  IN [prev EXCEPT
        !.wins = newWins,
        !.balance = prev.balance + winAmount,
        !.showVault = shouldOpenVault,
        !.lastResult = Label(winAmount),
        !.history = Slice(<<[game |-> prev.currentGame, result |-> "win"]>>
                            \o prev.history, HistoryCap)]

\* Mutant of setGame: the label is cleared before the isSpinning guard.
setGame_clearsFirst(prev, game) ==
  IF prev.isSpinning
    THEN [prev EXCEPT !.lastResult = NULL]
    ELSE [prev EXCEPT !.currentGame = game, !.lastResult = NULL]

setGame(prev, game) ==
  IF prev.isSpinning
    THEN prev
    ELSE [prev EXCEPT !.currentGame = game, !.lastResult = NULL]

setIsSpinning(prev, spinning) == [prev EXCEPT !.isSpinning = spinning]

\* The result overlay's render condition.
OverlayVisible == Truthy(state.lastResult) /\ ~state.isSpinning

(***************************************************************************)
(* Game modules: local state and timers.                                   *)
(***************************************************************************)
InitialReels == <<"diamond", "diamond", "diamond">>
InitialSide == "heads"
InitialDice == 1

\* The isSpinning prop the handlers of the module on screen close over: the
\* session's while the module is the current game's, and the one of its last
\* render, false (setGame went through), while it is on its way out.
isSpinningProp == IF mounted = state.currentGame THEN state.isSpinning ELSE FALSE

\* A pending timer with the variables its callback closes over; userChoice
\* is read by the coin callback only and is "heads" in the other timers.
\* attached: the module instance whose setReels / setSide / setDice the
\* callback calls is still mounted.
Timer(kind, userChoice) ==
  [kind |-> kind, iterations |-> 0, count |-> 0, userChoice |-> userChoice,
   attached |-> TRUE]

World(s, t) == [state |-> s, timers |-> t]

\* SlotMachine.spin up to and including setInterval
spin(isSpinning, s, t) ==
  IF isSpinning
    THEN World(s, t)
    ELSE World(setIsSpinning(s, TRUE), Append(t, Timer("slots", "heads")))

\* CoinFlip.flip up to and including setTimeout
flip(isSpinning, s, t, userChoice) ==
  IF isSpinning
    THEN World(s, t)
    ELSE World(setIsSpinning(s, TRUE), Append(t, Timer("coin", userChoice)))

\* DiceRoll.roll up to and including setInterval
roll(isSpinning, s, t) ==
  IF isSpinning
    THEN World(s, t)
    ELSE World(setIsSpinning(s, TRUE), Append(t, Timer("dice", "heads")))

\* Mutant of SlotsDone: iterations >= 20 resolves one tick early.
SlotsDone_ge(iterations) == iterations >= SlotIterations
\* iterations > 20
SlotsDone(iterations) == iterations > SlotIterations
\* Math.random() > 0.4
ForcedWin(r) == r * 10 > 4 * RandDenom
\* Mutant of ReelsMatch: only the first two reels are compared.
ReelsMatch_firstTwo(rs) == rs[1] = rs[2]
\* finalReels[0] === finalReels[1] && finalReels[1] === finalReels[2]
ReelsMatch(rs) == rs[1] = rs[2] /\ rs[2] = rs[3]
\* Math.random() > 0.5 ? 'heads' : 'tails'
CoinResult(r) == IF r * 2 > RandDenom THEN "heads" ELSE "tails"
\* result === userChoice
CoinWin(result, userChoice) == result = userChoice
\* count > 15
DiceDone(count) == count > DiceCount
\* final > 3
DiceWin(final) == final > DiceThreshold

\* clearInterval / a fired timeout: timer i is no longer pending.
Remove(t, i) == SubSeq(t, 1, i - 1) \o SubSeq(t, i + 1, Len(t))

\* The locals of the callback that ran in the last step, when it completed a
\* round: the reels it passed to its last setReels (winSym three times, or
\* finalReels), result and userChoice, final.  NoOutcome after any other
\* step.
NoOutcome ==
  [kind |-> "none", reels |-> InitialReels, result |-> InitialSide,
   userChoice |-> InitialSide, final |-> InitialDice]
SlotsOutcome(rs) == [NoOutcome EXCEPT !.kind = "slots", !.reels = rs]
CoinOutcome(result, userChoice) ==
  [NoOutcome EXCEPT !.kind = "coin", !.result = result, !.userChoice = userChoice]
DiceOutcome(final) == [NoOutcome EXCEPT !.kind = "dice", !.final = final]

Init ==
  /\ state = InitialState
  /\ mounted = InitialState.currentGame
  /\ reels = InitialReels
  /\ side = InitialSide
  /\ dice = InitialDice
  /\ timers = <<>>
  /\ outcome = NoOutcome

(***************************************************************************)
(* Program: user clicks, the end of an exit animation, timer callbacks.    *)
(***************************************************************************)
\* onClick={() => setGame(game)}.  The module on screen is not replaced
\* here: when currentGame changes it starts its exit animation.
SetGameClick(game) ==
  /\ state' = setGame(state, game)
  /\ outcome' = NoOutcome
  /\ UNCHANGED <<mounted, reels, side, dice, timers>>

\* The exit animation of the old module ends: it unmounts (its local state
\* is lost, its pending timers keep running with setters that no longer
\* show) and the module of currentGame mounts with its initial state.
ExitComplete ==
  /\ mounted # state.currentGame
  /\ mounted' = state.currentGame
  /\ reels' = InitialReels
  /\ side' = InitialSide
  /\ dice' = InitialDice
  /\ timers' = [i \in 1..Len(timers) |-> [timers[i] EXCEPT !.attached = FALSE]]
  /\ outcome' = NoOutcome
  /\ UNCHANGED state

\* onClick={spin} of the SlotMachine on screen.
SpinClick ==
  /\ mounted = "slots"
  /\ state.wins < MaxWins
  /\ Len(timers) < MaxTimers
  /\ LET w == spin(isSpinningProp, state, timers)
     IN state' = w.state /\ timers' = w.timers
  /\ outcome' = NoOutcome
  /\ UNCHANGED <<mounted, reels, side, dice>>

\* onClick={() => flip('heads')} / onClick={() => flip('tails')} of the
\* CoinFlip on screen.
FlipClick(userChoice) ==
  /\ mounted = "coin"
  /\ state.wins < MaxWins
  /\ Len(timers) < MaxTimers
  /\ LET w == flip(isSpinningProp, state, timers, userChoice)
     IN state' = w.state /\ timers' = w.timers
  /\ outcome' = NoOutcome
  /\ UNCHANGED <<mounted, reels, side, dice>>

\* onClick={roll} of the DiceRoll on screen.
RollClick ==
  /\ mounted = "dice"
  /\ state.wins < MaxWins
  /\ Len(timers) < MaxTimers
  /\ LET w == roll(isSpinningProp, state, timers)
     IN state' = w.state /\ timers' = w.timers
  /\ outcome' = NoOutcome
  /\ UNCHANGED <<mounted, reels, side, dice>>

\* One firing of the slots interval callback.  On the final firing the
\* tick's setReels is superseded by the setReels of the same callback, and
\* finalReels is read only when the win is not forced, so the draws that
\* cannot reach the state are not enumerated.
SlotsTick(i) ==
  /\ timers[i].kind = "slots"
  /\ LET iterations == timers[i].iterations + 1
         setReels(rs) == reels' = IF timers[i].attached THEN rs ELSE reels
     IN IF ~SlotsDone(iterations)
          THEN /\ \E r1 \in TickDraws, r2 \in TickDraws, r3 \in TickDraws :
                    setReels(<<RandSymbol(r1), RandSymbol(r2), RandSymbol(r3)>>)
               /\ timers' = [timers EXCEPT ![i].iterations = iterations]
               /\ outcome' = NoOutcome
               /\ UNCHANGED state
          ELSE /\ timers' = Remove(timers, i)
               /\ \E b \in BiasDraws :
                    IF ForcedWin(b)
                      THEN \E ws \in WinSymDraws, a \in AmountDraws :
                             LET winSym == RandSymbol(ws)
                             IN /\ setReels(<<winSym, winSym, winSym>>)
                                /\ outcome' = SlotsOutcome(<<winSym, winSym, winSym>>)
                                /\ state' = handleWin(setIsSpinning(state, FALSE),
                                                      WinAmount(a))
                      ELSE \E f1 \in ReelDraws, f2 \in ReelDraws, f3 \in ReelDraws :
                             LET finalReels ==
                                   <<RandSymbol(f1), RandSymbol(f2), RandSymbol(f3)>>
                             IN /\ setReels(finalReels)
                                /\ outcome' = SlotsOutcome(finalReels)
                                /\ IF ReelsMatch(finalReels)
                                     THEN \E a \in AmountDraws :
                                            state' = handleWin(
                                                       setIsSpinning(state, FALSE),
                                                       WinAmount(a))
                                     ELSE state' = setIsSpinning(state, FALSE)
  /\ UNCHANGED <<mounted, side, dice>>

\* The coin timeout callback.
CoinTimeout(i) ==
  /\ timers[i].kind = "coin"
  /\ timers' = Remove(timers, i)
  /\ \E r \in CoinDraws :
       LET result == CoinResult(r)
       IN /\ side' = IF timers[i].attached THEN result ELSE side
          /\ outcome' = CoinOutcome(result, timers[i].userChoice)
          /\ IF CoinWin(result, timers[i].userChoice)
               THEN \E a \in AmountDraws :
                      state' = handleWin(setIsSpinning(state, FALSE), WinAmount(a))
               ELSE state' = setIsSpinning(state, FALSE)
  /\ UNCHANGED <<mounted, reels, dice>>

\* One firing of the dice interval callback.
DiceTick(i) ==
  /\ timers[i].kind = "dice"
  /\ LET count == timers[i].count + 1
         setDice(d) == dice' = IF timers[i].attached THEN d ELSE dice
     IN IF ~DiceDone(count)
          THEN /\ \E r \in TickDraws : setDice(RandDie(r))
               /\ timers' = [timers EXCEPT ![i].count = count]
               /\ outcome' = NoOutcome
               /\ UNCHANGED state
          ELSE /\ timers' = Remove(timers, i)
               /\ \E f \in DiceDraws :
                    LET final == RandDie(f)
                    IN /\ setDice(final)
                       /\ outcome' = DiceOutcome(final)
                       /\ IF DiceWin(final)
                            THEN \E a \in AmountDraws :
                                   state' = handleWin(setIsSpinning(state, FALSE),
                                                      WinAmount(a))
                            ELSE state' = setIsSpinning(state, FALSE)
  /\ UNCHANGED <<mounted, reels, side>>

\* The callback of the i-th pending timer fires.
TimerFires(i) ==
  /\ i <= Len(timers)
  /\ (SlotsTick(i) \/ CoinTimeout(i) \/ DiceTick(i))

Next ==
  \/ \E game \in GameType : SetGameClick(game)
  \/ ExitComplete
  \/ SpinClick
  \/ \E userChoice \in {"heads", "tails"} : FlipClick(userChoice)
  \/ RollClick
  \/ \E i \in 1..Len(timers) : SlotsTick(i)
  \/ \E i \in 1..Len(timers) : CoinTimeout(i)
  \/ \E i \in 1..Len(timers) : DiceTick(i)

Spec == Init /\ [][Next]_vars

\* Every pending timer's callback keeps firing.
FairSpec == Spec /\ \A i \in 1..MaxTimers : WF_vars(TimerFires(i))

(***************************************************************************)
(* Session Controller alone, its entry points called in any order.         *)
(***************************************************************************)
CallOnWin ==
  /\ state.wins < MaxCalls
  /\ \E a \in CallDraws : state' = handleWin(state, WinAmount(a))
  /\ UNCHANGED <<mounted, reels, side, dice, timers, outcome>>

CallSetGame(game) ==
  /\ state' = setGame(state, game)
  /\ UNCHANGED <<mounted, reels, side, dice, timers, outcome>>

CallSetIsSpinning(spinning) ==
  /\ state' = setIsSpinning(state, spinning)
  /\ UNCHANGED <<mounted, reels, side, dice, timers, outcome>>

NextController ==
  \/ CallOnWin
  \/ \E game \in GameType : CallSetGame(game)
  \/ \E spinning \in BOOLEAN : CallSetIsSpinning(spinning)

SpecController == Init /\ [][NextController]_vars

(***************************************************************************)
(* Properties.                                                             *)
(***************************************************************************)
\* A timer without its attached flag: the round it stands for.
Closure(t) ==
  [kind |-> t.kind, iterations |-> t.iterations, count |-> t.count,
   userChoice |-> t.userChoice]
Closures(ts) == [i \in 1..Len(ts) |-> Closure(ts[i])]

\* This step is the completing callback of a pending round.
RoundCompletes == Len(timers) >= 1 /\ Len(timers') = Len(timers) - 1

\* The callback of this step resolved its round as a win: three identical
\* reels, the called side, a 4, 5 or 6.
WonOutcome ==
  \/ /\ outcome'.kind = "slots"
     /\ outcome'.reels[1] = outcome'.reels[2]
     /\ outcome'.reels[2] = outcome'.reels[3]
  \/ outcome'.kind = "coin" /\ outcome'.result = outcome'.userChoice
  \/ outcome'.kind = "dice" /\ outcome'.final \in {4, 5, 6}

\* This step completes a round that resolves as a loss.
LossStep == RoundCompletes /\ ~WonOutcome

\* C1: showVault is true exactly when wins >= 3; it turns true in the step
\* that takes wins from 2 to 3 and no step ever turns it back to false.
C1_VaultIffThreeWins ==
  /\ [](state.showVault <=> state.wins >= 3)
  /\ [][(~state.showVault /\ state'.showVault)
          => (state.wins = 2 /\ state'.wins = 3)]_vars
  /\ [][state.showVault => state'.showVault]_vars

\* The vault is open and a further win has been counted since it opened.
C1_Witness == state.showVault /\ state.wins = 4 /\ ~state.isSpinning

\* C2: history never has more than 5 entries, all of them wins; a step that
\* counts a win puts one entry for the current game in front of the older
\* entries, which keep their order and lose only the oldest beyond 5; every
\* other step leaves history alone.
C2_HistoryRecentFirst ==
  /\ [](/\ Len(state.history) <= 5
        /\ \A i \in 1..Len(state.history) : state.history[i].result = "win")
  /\ [][IF state'.wins # state.wins
          THEN /\ Len(state'.history)
                    = (IF Len(state.history) < 5 THEN Len(state.history) + 1 ELSE 5)
               /\ state'.history[1] = [game |-> state.currentGame, result |-> "win"]
               /\ \A i \in 2..Len(state'.history) :
                    state'.history[i] = state.history[i - 1]
          ELSE state'.history = state.history]_vars

\* A sixth win has pushed the oldest entry out of a history of mixed games.
C2_Witness ==
  /\ state.wins = 6
  /\ Len(state.history) = 5
  /\ state.history[1].game # state.history[5].game

\* C3: wins and balance start at 0; every step either leaves both alone or
\* adds 1 to wins and an integer of 400..500 to balance, the amount the label
\* then shows; hence 400 * wins <= balance <= 500 * wins.
C3_BalanceSumsDraws ==
  /\ [](/\ 400 * state.wins <= state.balance
        /\ state.balance <= 500 * state.wins)
  /\ [][\/ state'.wins = state.wins /\ state'.balance = state.balance
        \/ /\ state'.wins = state.wins + 1
           /\ state'.balance - state.balance \in 400..500
           /\ state'.lastResult = Label(state'.balance - state.balance)]_vars

\* Three wins, the last of 480, for a balance of 1355 (420 + 455 + 480).
C3_Witness ==
  /\ state.wins = 3
  /\ state.balance = 1355
  /\ state.lastResult = "+$480!"
  /\ state.showVault

\* C4: while isSpinning is true, setGame(g) returns the session unchanged for
\* every g, and currentGame changes only in steps that start with isSpinning
\* false.
C4_SetGameBlockedWhileSpinning ==
  /\ [](state.isSpinning => \A g \in GameType : setGame(state, g) = state)
  /\ [][state'.currentGame # state.currentGame => ~state.isSpinning]_vars

\* A round is in flight on another game than the initial one with a label
\* set: a setGame that went through would change currentGame and lastResult.
C4_Witness ==
  /\ state.isSpinning
  /\ state.currentGame = "dice"
  /\ Truthy(state.lastResult)
  /\ Len(timers) >= 1

\* C5: a round start changes only isSpinning (to true); while a round stays
\* in flight across a step, wins, balance, showVault and history do not
\* change (the round may still resolve as a loss, and must then find them as
\* they were when it started); a completion that resolves as a loss changes
\* only isSpinning (to false).
C5_LossLeavesSession ==
  /\ [][Len(timers') = Len(timers) + 1
          => state' = [state EXCEPT !.isSpinning = TRUE]]_vars
  /\ [][(Len(timers) >= 1 /\ Len(timers') >= 1)
          => /\ state'.wins = state.wins
             /\ state'.balance = state.balance
             /\ state'.showVault = state.showVault
             /\ state'.history = state.history]_vars
  /\ [][LossStep => state' = [state EXCEPT !.isSpinning = FALSE]]_vars

\* C6: at most one timer is pending, isSpinning is true exactly when one is,
\* and the start handler of the module on screen, called while isSpinning is
\* true, starts no timer and changes nothing.
C6_OneRoundInFlight ==
  /\ Len(timers) <= 1
  /\ state.isSpinning <=> Len(timers) = 1
  /\ state.isSpinning =>
       /\ mounted = "slots"
            => spin(isSpinningProp, state, timers) = World(state, timers)
       /\ mounted = "dice"
            => roll(isSpinningProp, state, timers) = World(state, timers)
       /\ mounted = "coin"
            => \A c \in {"heads", "tails"} :
                 flip(isSpinningProp, state, timers, c) = World(state, timers)

\* C7: isSpinning never stays true for ever, and the oldest pending timer
\* keeps firing until none is pending, so every round reaches its completing
\* callback; the rounds in flight change only by a round start, which adds a
\* fresh one and leaves the others alone, or by a timer's own callback: a
\* slots timer counts its ticks and resolves on the 21st, a dice timer on the
\* 16th, a coin timer on its single firing, and the resolving step removes
\* the timer and sets isSpinning to false.
C7_RoundsRunToCompletion ==
  /\ state.isSpinning ~> ~state.isSpinning
  /\ ([]<>(timers = <<>>) \/ []<><<TimerFires(1)>>_vars)
  /\ [][Closures(timers') # Closures(timers) =>
          \/ \E c \in {"heads", "tails"}, k \in GameType :
               Closures(timers') = Append(Closures(timers), Closure(Timer(k, c)))
          \/ \E i \in 1..Len(timers) :
               LET t == Closure(timers[i])
                   last == \/ t.kind = "slots" /\ t.iterations = 20
                           \/ t.kind = "dice" /\ t.count = 15
                           \/ t.kind = "coin"
               IN IF last
                    THEN /\ Closures(timers') = Remove(Closures(timers), i)
                         /\ ~state'.isSpinning
                    ELSE /\ state' = state
                         /\ Closures(timers') =
                              [Closures(timers) EXCEPT ![i] =
                                 [t EXCEPT !.iterations =
                                             IF t.kind = "slots" THEN @ + 1 ELSE @,
                                           !.count =
                                             IF t.kind = "dice" THEN @ + 1 ELSE @]]]_vars

\* Two rounds are in flight, a slots round and a dice round, each one tick
\* from resolving.
C7_Witness ==
  /\ Len(timers) = 2
  /\ timers[1].kind = "slots" /\ timers[1].iterations = 20
  /\ timers[2].kind = "dice" /\ timers[2].count = 15

\* C8: wins grows by at most 1 in a step, and grows exactly in the steps that
\* complete a round that resolves as a win (identical reels, the called side,
\* a die of 4, 5 or 6); the completing callback is that of a timer of its
\* kind (and call), the die is in 1..6, and a module that is still mounted
\* displays the result that decided.
C8_WinIffPredicate ==
  /\ [](dice \in 1..6)
  /\ [][/\ state'.wins \in {state.wins, state.wins + 1}
        /\ state'.wins = state.wins + 1 <=> (RoundCompletes /\ WonOutcome)
        /\ RoundCompletes =>
             \E i \in 1..Len(timers) :
               /\ timers' = Remove(timers, i)
               /\ outcome'.kind = timers[i].kind
               /\ outcome'.final \in 1..6
               /\ timers[i].kind = "coin"
                    => outcome'.userChoice = timers[i].userChoice
               /\ timers[i].attached =>
                    /\ timers[i].kind = "slots" => reels' = outcome'.reels
                    /\ timers[i].kind = "coin" => side' = outcome'.result
                    /\ timers[i].kind = "dice" => dice' = outcome'.final]_vars

\* A coin round called tails has just been won by its mounted module.
C8_Witness ==
  /\ outcome.kind = "coin"
  /\ outcome.userChoice = "tails"
  /\ side = "tails"
  /\ mounted = "coin"
  /\ state.wins = 1

\* C9: the entry a win puts at the front of history names the game of the
\* round that completed.
C9_HistoryNamesStartedGame ==
  [][state'.wins # state.wins => state'.history[1].game = outcome'.kind]_vars

\* C10: after a round resolves as a loss the result overlay is not visible.
C10_NoLabelAfterLoss == [][LossStep => ~OverlayVisible']_vars

====
